---- MODULE Spec2Model ----
(***************************************************************************)
(* Model of the SportsLink scoring core (src/app.py, src/models.py):       *)
(* match_players_to_requirement, ai_recommend_players, the leaderboard     *)
(* composite, compare_players and the analytics match_count, over a store  *)
(* of player profiles, ratings, interests, achievements and team           *)
(* requirements, with the handlers that change profiles, ratings,          *)
(* interests and profile views.                                            *)
(*                                                                         *)
(* Strings are sequences of one-character strings, so that split, strip    *)
(* and lower are computed and not assumed.  Floating-point values are      *)
(* exact fractions [num, den]; values the code rounds to one decimal are   *)
(* kept in tenths (avg_rating 4.5 is 45, ai_score 90.5 is 905).            *)
(***************************************************************************)
EXTENDS Integers, Sequences, FiniteSets, TLC

\* ------------------------------------------------------------------------
\* Bounds of the model
\* ------------------------------------------------------------------------
MaxPlayers == 3    \* profiles in a store with several players
MaxExp == 3        \* experience_years of a profile
MaxMinExp == 2     \* min_experience of a requirement
MaxTopN == 2       \* top_n of a recommendation call
MaxLiked == 4      \* requirements one player expressed interest in
MaxTextLen == 5    \* characters of a skills string given to the parser alone
MaxInFlight == 2   \* requests the server works on at the same time

\* ------------------------------------------------------------------------
\* Characters and the words used as inputs
\* ------------------------------------------------------------------------
UpperCase ==
  <<"A","B","C","D","E","F","G","H","I","J","K","L","M",
    "N","O","P","Q","R","S","T","U","V","W","X","Y","Z">>
LowerCase ==
  <<"a","b","c","d","e","f","g","h","i","j","k","l","m",
    "n","o","p","q","r","s","t","u","v","w","x","y","z">>

Empty == << >>
Comma == <<",">>
Space == <<" ">>

Soccer == <<"S", "o", "c", "c", "e", "r">>
soccer == <<"s", "o", "c", "c", "e", "r">>
Tennis == <<"T", "e", "n", "n", "i", "s">>
Goalkeeper == <<"G", "o", "a", "l", "k", "e", "e", "p", "e", "r">>
GOALKEEPER == <<"G", "O", "A", "L", "K", "E", "E", "P", "E", "R">>
Striker == <<"S", "t", "r", "i", "k", "e", "r">>
reflexes == <<"r", "e", "f", "l", "e", "x", "e", "s">>
Reflexes == <<"R", "e", "f", "l", "e", "x", "e", "s">>
communication == <<"c", "o", "m", "m", "u", "n", "i", "c", "a", "t", "i", "o", "n">>
leadership == <<"l", "e", "a", "d", "e", "r", "s", "h", "i", "p">>
speed == <<"s", "p", "e", "e", "d">>
Pune == <<"P", "u", "n", "e">>
pune == <<"p", "u", "n", "e">>
Goa == <<"G", "o", "a">>
NewPuneIN == <<"N", "e", "w", " ">> \o Pune \o Comma \o <<" ", "I", "N">>
PuneMH == pune \o Space \o Comma \o <<"M", "H">>

\* ------------------------------------------------------------------------
\* str.lower, str.strip, str.split, substring test
\* ------------------------------------------------------------------------
LowerOf ==
  [c \in {UpperCase[i] : i \in 1..26} |->
     LowerCase[CHOOSE i \in 1..26 : UpperCase[i] = c]]

LowerChar(c) == IF c \in DOMAIN LowerOf THEN LowerOf[c] ELSE c

lower(s) == [i \in 1..Len(s) |-> LowerChar(s[i])]

IsSpace(c) == c = " "

StripOnce(s) ==
  LET a == IF s # << >> /\ IsSpace(Head(s)) THEN Tail(s) ELSE s
  IN IF a # << >> /\ IsSpace(a[Len(a)]) THEN SubSeq(a, 1, Len(a) - 1) ELSE a
strip(s) ==
  IF \A i \in 1..Len(s) : IsSpace(s[i])
  THEN Empty
  ELSE LET first == CHOOSE i \in 1..Len(s) :
                      /\ ~IsSpace(s[i])
                      /\ \A j \in 1..(i - 1) : IsSpace(s[j])
           last  == CHOOSE i \in 1..Len(s) :
                      /\ ~IsSpace(s[i])
                      /\ \A j \in (i + 1)..Len(s) : IsSpace(s[j])
       IN SubSeq(s, first, last)

RECURSIVE split(_, _)
split(s, sep) ==
  IF \A i \in 1..Len(s) : s[i] # sep
  THEN <<s>>
  ELSE LET k == CHOOSE i \in 1..Len(s) :
                  /\ s[i] = sep
                  /\ \A j \in 1..(i - 1) : s[j] # sep
       IN <<SubSeq(s, 1, k - 1)>> \o split(SubSeq(s, k + 1, Len(s)), sep)

contains(needle, hay) ==
  \E i \in 0..(Len(hay) - Len(needle)) :
     SubSeq(hay, i + 1, i + Len(needle)) = needle

RECURSIVE Flatten(_)
Flatten(ss) == IF ss = << >> THEN << >> ELSE Head(ss) \o Flatten(Tail(ss))

\* set(s.strip().lower() for s in text.split(',') if s.strip())
skill_set(text) ==
  LET parts == split(text, ",")
  IN {lower(strip(parts[i])) : i \in {j \in 1..Len(parts) : strip(parts[j]) # Empty}}

RECURSIVE Distinct(_)
Distinct(s) ==
  IF s = << >> THEN << >>
  ELSE LET other(x) == x # Head(s)
       IN <<Head(s)>> \o Distinct(SelectSeq(Tail(s), other))

SkillsListDistinct(text) ==
  LET parts == split(text, ",")
      keep(t) == strip(t) # Empty
      kept == SelectSeq(parts, keep)
  IN Distinct([i \in 1..Len(kept) |-> strip(kept[i])])

\* [s.strip() for s in self.skills.split(',') if s.strip()]
skills_list(text) ==
  LET parts == split(text, ",")
      keep(t) == strip(t) # Empty
      kept == SelectSeq(parts, keep)
  IN [i \in 1..Len(kept) |-> strip(kept[i])]

\* ------------------------------------------------------------------------
\* Exact fractions (the code's floats)
\* ------------------------------------------------------------------------
Frac(a, b) == [num |-> a, den |-> b]
Int2F(a) == Frac(a, 1)
FAdd(x, y) == Frac(x.num * y.den + y.num * x.den, x.den * y.den)
FMul(x, k) == Frac(x.num * k, x.den)
FLe(x, y) == x.num * y.den <= y.num * x.den
FLt(x, y) == x.num * y.den < y.num * x.den
FEq(x, y) == x.num * y.den = y.num * x.den
FMin(x, y) == IF FLe(x, y) THEN x ELSE y

\* round(x): nearest integer, halves to the even neighbour (x >= 0)
round(x) ==
  LET q == x.num \div x.den
      r == x.num % x.den
  IN IF 2 * r < x.den THEN q
     ELSE IF 2 * r > x.den THEN q + 1
     ELSE IF q % 2 = 0 THEN q ELSE q + 1

\* round(x, 1), in tenths
round1(x) == round(FMul(x, 10))

Min(a, b) == IF a <= b THEN a ELSE b

\* ------------------------------------------------------------------------
\* The store
\* ------------------------------------------------------------------------
VARIABLES
  players,       \* player_profiles rows, in the order PlayerProfile.query.all() yields them
  ratings,       \* player_ratings rows [player_id, rater_id, rating]
  interests,     \* interests rows [player_id (a users.id), requirement_id]
  achievements,  \* achievements rows [player_id]
  requirements,  \* team_requirements rows
  views,         \* profile_views rows [profile_id, viewer_id]
  inflight,      \* per server thread, the request it has read and not answered
  op,            \* the function last called
  arg,           \* its arguments
  out            \* the value it returned

vars == <<players, ratings, interests, achievements, requirements, views,
          inflight, op, arg, out>>

\* PlayerProfile.ratings: the rating rows of one profile
RatingsOf(p, rts) ==
  LET mine(r) == r.player_id = p.id
  IN SelectSeq(rts, mine)

RECURSIVE SumRatings(_)
SumRatings(rs) ==
  IF rs = << >> THEN 0 ELSE Head(rs).rating + SumRatings(Tail(rs))

AvgRatingUnrated(p, rts) ==
  LET rs == RatingsOf(p, rts)
  IN IF rs = << >> THEN -10
     ELSE round1(Frac(SumRatings(rs), Len(rs)))

\* PlayerProfile.avg_rating, in tenths: round(sum / len, 1), 0 without ratings
avg_rating(p, rts) ==
  LET rs == RatingsOf(p, rts)
  IN IF rs = << >> THEN 0
     ELSE round1(Frac(SumRatings(rs), Len(rs)))

\* ------------------------------------------------------------------------
\* list.sort(key=..., reverse=True): stable, descending by the field key
\* ------------------------------------------------------------------------
RECURSIVE InsertDescFirst(_, _, _)
InsertDescFirst(e, s, key) ==
  IF s = << >> THEN <<e>>
  ELSE IF Head(s)[key] > e[key]
       THEN <<Head(s)>> \o InsertDescFirst(e, Tail(s), key)
       ELSE <<e>> \o s

RECURSIVE InsertDesc(_, _, _)
InsertDesc(e, s, key) ==
  IF s = << >> THEN <<e>>
  ELSE IF Head(s)[key] >= e[key]
       THEN <<Head(s)>> \o InsertDesc(e, Tail(s), key)
       ELSE <<e>> \o s

RECURSIVE SortFrom(_, _, _)
SortFrom(done, todo, key) ==
  IF todo = << >> THEN done
  ELSE SortFrom(InsertDesc(Head(todo), done, key), Tail(todo), key)

SortNone(s, key) == s
sort_desc(s, key) == SortFrom(<< >>, s, key)

\* ------------------------------------------------------------------------
\* match_players_to_requirement
\* ------------------------------------------------------------------------
MatchSport(p, r) == IF lower(p.sport) = lower(r.sport) THEN 3 ELSE 0
MatchPosition(p, r) == IF lower(p.position) = lower(r.position) THEN 2 ELSE 0
MatchExperienceAbove(p, r) == IF p.experience_years > r.min_experience THEN 1 ELSE 0
MatchExperience(p, r) == IF p.experience_years >= r.min_experience THEN 1 ELSE 0
MatchedSkills(p, r) == skill_set(r.skills_required) \cap skill_set(p.skills)

MatchBonusAlt(avg) == IF avg >= 45 THEN 2 ELSE IF avg > 35 THEN 1 ELSE 0
MatchBonus(avg) == IF avg >= 45 THEN 2 ELSE IF avg >= 35 THEN 1 ELSE 0

MatchScoreAlt(p, r, rts) ==
  MatchSport(p, r) + MatchPosition(p, r) + MatchExperience(p, r)
    + (IF MatchedSkills(p, r) # {} THEN 1 ELSE 0)
    + MatchBonus(avg_rating(p, rts))
MatchScore(p, r, rts) ==
  MatchSport(p, r) + MatchPosition(p, r) + MatchExperience(p, r)
    + Cardinality(MatchedSkills(p, r))
    + MatchBonus(avg_rating(p, rts))

MatchEntry(p, r, rts) ==
  [player         |-> p.id,
   score          |-> MatchScore(p, r, rts),
   matched_skills |-> MatchedSkills(p, r),
   total_skills   |-> Cardinality(skill_set(r.skills_required))]

MatchKeepAlt(e) == e.score >= 0
MatchKeep(e) == e.score > 0

match_players_to_requirement(r, ps, rts) ==
  LET all == [i \in 1..Len(ps) |-> MatchEntry(ps[i], r, rts)]
  IN sort_desc(SelectSeq(all, MatchKeep), "score")

Match(r) ==
  /\ r \in 1..Len(requirements)
  /\ op' = "match"
  /\ arg' = [req |-> r]
  /\ out' = match_players_to_requirement(requirements[r], players, ratings)
  /\ UNCHANGED <<players, ratings, interests, achievements, requirements,
                 views, inflight>>

\* ------------------------------------------------------------------------
\* Building a store from per-player descriptions.  A description carries
\* the profile columns plus stars (the ratings the profile received, one
\* per team user), liked (how many requirements the player expressed
\* interest in) and medals (how many achievements the profile has).
\* Profile i has id i and belongs to user NumTeams + i: the team users
\* registered first.
\* ------------------------------------------------------------------------
\* The ratings a profile received, one per team user, in the three input sets
MatchStars == {<< >>, <<4>>, <<3, 4>>, <<4, 5>>, <<3, 3, 4>>}
RecStars == {<< >>, <<5>>, <<3, 3, 3, 4, 4>>}
BoardStars == {<< >>, <<1>>, <<3, 4>>, <<5>>}

\* as many team users as the longest of these
NumTeams ==
  LET lens == {Len(st) : st \in MatchStars \cup RecStars \cup BoardStars}
  IN CHOOSE n \in lens : \A m \in lens : m <= n

Describe(sp, po, sk, ex, lo, vw, st, lk, md) ==
  [sport |-> sp, position |-> po, skills |-> sk, experience_years |-> ex,
   location |-> lo, profile_views |-> vw, stars |-> st, liked |-> lk,
   medals |-> md]

ProfileRow(d, i) ==
  [id |-> i, user_id |-> NumTeams + i, sport |-> d.sport,
   position |-> d.position, skills |-> d.skills,
   experience_years |-> d.experience_years, location |-> d.location,
   profile_views |-> d.profile_views]

PlayersOf(ds) == [i \in 1..Len(ds) |-> ProfileRow(ds[i], i)]
RatingRowsOf(ds) ==
  Flatten([i \in 1..Len(ds) |->
    [k \in 1..Len(ds[i].stars) |->
       [player_id |-> i, rater_id |-> k, rating |-> ds[i].stars[k]]]])
InterestRowsOf(ds) ==
  Flatten([i \in 1..Len(ds) |->
    [k \in 1..ds[i].liked |->
       [player_id |-> NumTeams + i, requirement_id |-> k]]])
AchievementRowsOf(ds) ==
  Flatten([i \in 1..Len(ds) |->
    [k \in 1..ds[i].medals |-> [player_id |-> i]]])
\* one row per view counted: the viewers are the first users but the owner
ViewRowsOf(ds) ==
  Flatten([i \in 1..Len(ds) |->
    [k \in 1..ds[i].profile_views |->
       [profile_id |-> i,
        viewer_id |-> IF k < NumTeams + i THEN k ELSE k + 1]]])

\* a server thread that works on no request
NoRequest == [handler |-> "none"]
Threads == 1..MaxInFlight

Requirement(sp, po, sk, me, lo) ==
  [sport |-> sp, position |-> po, skills_required |-> sk,
   min_experience |-> me, location |-> lo]

\* The requirements table holds the requirements under test followed by as
\* many other requirements as the interest rows refer to.
OtherRequirement == Requirement(Tennis, Striker, speed, 1, Goa)

RequirementRowsOf(ds, rq) ==
  LET most == IF ds = << >> THEN 0
              ELSE CHOOSE n \in {ds[i].liked : i \in 1..Len(ds)} :
                     \A i \in 1..Len(ds) : ds[i].liked <= n
      rows == rq \o [k \in 1..(most - Len(rq)) |-> OtherRequirement]
  IN [i \in 1..Len(rows) |-> rows[i] @@ [id |-> i]]

Load(ds, rq) ==
  /\ players = PlayersOf(ds)
  /\ ratings = RatingRowsOf(ds)
  /\ interests = InterestRowsOf(ds)
  /\ achievements = AchievementRowsOf(ds)
  /\ requirements = RequirementRowsOf(ds, rq)
  /\ views = ViewRowsOf(ds)
  /\ inflight = [w \in Threads |-> NoRequest]
  /\ op = "none"
  /\ arg = [req |-> 0]
  /\ out = << >>

SeqsUpTo(S, lo, hi) == UNION {[1..n -> S] : n \in lo..hi}

\* ------------------------------------------------------------------------
\* Inputs of the matcher
\* ------------------------------------------------------------------------
ExampleSkills == reflexes \o Comma \o communication \o Comma \o leadership
MixedSkills == Reflexes \o Comma \o Space \o communication
RepeatedSkills == speed \o Comma \o Comma \o Space \o speed
ExampleRequired == reflexes \o Comma \o communication
ThreeRequired ==
  Reflexes \o Space \o Comma \o Space \o leadership \o Comma \o speed

MatchPool ==
  {Describe(sp, po, sk, ex, Empty, 0, st, 0, 0) :
     sp \in {Soccer, soccer, Tennis}, po \in {Goalkeeper, GOALKEEPER, Striker},
     sk \in {ExampleSkills, MixedSkills, leadership, RepeatedSkills},
     ex \in 0..MaxExp, st \in MatchStars}

MatchCore ==
  {d \in MatchPool :
     /\ d.sport \in {Soccer, Tennis}
     /\ d.position = Striker
     /\ d.skills \in {ExampleSkills, leadership}
     /\ d.experience_years = 0
     /\ d.stars \in {<< >>, <<4, 5>>}}

MatchStores == SeqsUpTo(MatchPool, 0, 1) \cup SeqsUpTo(MatchCore, 2, MaxPlayers)

MatchReqs ==
  {Requirement(sp, po, sk, me, Empty) :
     sp \in {Soccer}, po \in {Goalkeeper},
     sk \in {ExampleRequired, Comma, ThreeRequired}, me \in 0..MaxMinExp}

InitMatch == \E ds \in MatchStores, rq \in MatchReqs : Load(ds, <<rq>>)

\* A behaviour is one call on one store.
Idle == op = "none"

NextMatch == \E r \in 1..Len(requirements) : Idle /\ Match(r)

SpecMatch == InitMatch /\ [][NextMatch]_vars

\* ------------------------------------------------------------------------
\* ai_recommend_players
\* ------------------------------------------------------------------------
\* 1. skill overlap: len(matched) / len(req_skills) * 40, 0 without req_skills
SkillPctAlt(p, r) ==
  LET req == skill_set(r.skills_required)
  IN IF req # {}
     THEN Frac(Cardinality(req \cap skill_set(p.skills)) * 40, Cardinality(req))
     ELSE Int2F(40)
SkillPct(p, r) ==
  LET req == skill_set(r.skills_required)
  IN IF req # {}
     THEN Frac(Cardinality(req \cap skill_set(p.skills)) * 40, Cardinality(req))
     ELSE Int2F(0)

\* 2. and 3. sport and position
SportScore(p, r) == IF lower(p.sport) = lower(r.sport) THEN 20 ELSE 0
PosScore(p, r) == IF lower(p.position) = lower(r.position) THEN 15 ELSE 0

\* 4. experience fit
ExpScoreAlt(p, r) ==
  IF r.min_experience > 0
  THEN FMul(Frac(p.experience_years, r.min_experience), 5)
  ELSE Int2F(IF p.experience_years > 0 THEN 10 ELSE 5)
ExpScoreFromTwo(p, r) ==
  IF r.min_experience > 1
  THEN FMul(FMin(Frac(p.experience_years, r.min_experience), Int2F(2)), 5)
  ELSE Int2F(IF p.experience_years > 0 THEN 10 ELSE 5)
ExpScore(p, r) ==
  IF r.min_experience > 0
  THEN FMul(FMin(Frac(p.experience_years, r.min_experience), Int2F(2)), 5)
  ELSE Int2F(IF p.experience_years > 0 THEN 10 ELSE 5)

\* 5. rating: avg_rating() * 2
RatingScore(p, rts) == Frac(avg_rating(p, rts) * 2, 10)

\* 6. social proof: min(interest_count * 1.5, 5)
InterestCountById(p, ints) ==
  LET mine(row) == row.player_id = p.id
  IN Len(SelectSeq(ints, mine))
InterestCount(p, ints) ==
  LET mine(row) == row.player_id = p.user_id
  IN Len(SelectSeq(ints, mine))
SocialScore(p, ints) == FMin(Frac(InterestCount(p, ints) * 3, 2), Int2F(5))

\* 7. location bonus
City(loc) == lower(strip(split(loc, ",")[1]))
LocScore(p, r) ==
  IF r.location # Empty /\ p.location # Empty
  THEN IF City(r.location) # Empty /\ contains(City(r.location), City(p.location))
       THEN 5 ELSE 0
  ELSE 0

\* the seven factor values of one player
Factors(p, r, rts, ints) ==
  [skill_match |-> SkillPct(p, r),
   sport       |-> Int2F(SportScore(p, r)),
   position    |-> Int2F(PosScore(p, r)),
   experience  |-> ExpScore(p, r),
   rating      |-> RatingScore(p, rts),
   social      |-> SocialScore(p, ints),
   location    |-> Int2F(LocScore(p, r))]

\* the running sum ai_score at line 170
SumFactors(f) ==
  FAdd(f.skill_match, FAdd(f.sport, FAdd(f.position, FAdd(f.experience,
    FAdd(f.rating, FAdd(f.social, f.location))))))

AiScore(p, r, rts, ints) == SumFactors(Factors(p, r, rts, ints))

\* breakdown: skill, experience, rating and social rounded to integers
Breakdown(f) == [k \in DOMAIN f |-> round(f[k])]

ConfidenceAlt(x) == Min(round(Frac(round1(x), 10)), 100)
Confidence(x) == Min(round(x), 100)

AiKeepAlt(x) == FLe(Int2F(10), x)
AiKeep(x) == FLt(Int2F(10), x)

\* One pass of the loop: the entry appended for player p, or nothing.
\* ai_score is in tenths: round(ai_score, 1)
AiEntries(p, r, rts, ints) ==
  LET f == Factors(p, r, rts, ints)
      x == SumFactors(f)
  IN IF AiKeep(x)
     THEN <<[player         |-> p.id,
             ai_score       |-> round1(x),
             matched_skills |-> skill_set(r.skills_required) \cap skill_set(p.skills),
             breakdown      |-> Breakdown(f),
             confidence     |-> Confidence(x)]>>
     ELSE << >>

\* results[:top_n]
Take(s, n) == SubSeq(s, 1, Min(n, Len(s)))

ai_recommend_players(r, top_n, ps, rts, ints) ==
  LET results == Flatten([i \in 1..Len(ps) |-> AiEntries(ps[i], r, rts, ints)])
  IN Take(sort_desc(results, "ai_score"), top_n)

\* every returned profile is counted as viewed
RecommendCounting(r, n) ==
  LET res == ai_recommend_players(requirements[r], n, players, ratings, interests)
      shown(p) == \E i \in 1..Len(res) : res[i].player = p.id
  IN /\ r \in 1..Len(requirements)
     /\ op' = "recommend"
     /\ arg' = [req |-> r, top_n |-> n]
     /\ out' = res
     /\ players' = [k \in 1..Len(players) |->
                      IF shown(players[k])
                      THEN [players[k] EXCEPT !.profile_views = @ + 1]
                      ELSE players[k]]
     /\ UNCHANGED <<ratings, interests, achievements, requirements, views,
                    inflight>>

Recommend(r, n) ==
  /\ r \in 1..Len(requirements)
  /\ op' = "recommend"
  /\ arg' = [req |-> r, top_n |-> n]
  /\ out' = ai_recommend_players(requirements[r], n, players, ratings, interests)
  /\ UNCHANGED <<players, ratings, interests, achievements, requirements,
                 views, inflight>>

\* ------------------------------------------------------------------------
\* Inputs of the recommender
\* ------------------------------------------------------------------------
\* sport, position and location of a profile: all three matching a
\* Soccer/Goalkeeper/Pune requirement, none, and two mixtures
RecKinds ==
  {<<soccer, GOALKEEPER, NewPuneIN>>, <<Tennis, Striker, Empty>>,
   <<soccer, Striker, Goa>>, <<Tennis, GOALKEEPER, NewPuneIN>>}

RecPool ==
  {Describe(k[1], k[2], sk, ex, k[3], 0, st, lk, 0) :
     k \in RecKinds, sk \in {ExampleSkills, leadership, communication},
     ex \in 0..MaxExp, st \in RecStars, lk \in {0, 1, MaxLiked}}

\* Profiles for the stores with several players: two with one of three
\* required skills, one whose rating, interest and experience points come
\* close to them, one that matches everything and one that matches nothing.
RecCore ==
  {Describe(Tennis, Striker, leadership, 0, Empty, 0, << >>, 0, 0),
   Describe(Tennis, Striker, speed, 0, Empty, 0, << >>, 0, 0),
   Describe(Tennis, Striker, communication, 1, Empty, 0, <<3, 3, 3, 4, 4>>, 1, 0),
   Describe(soccer, GOALKEEPER, ExampleSkills, MaxExp, Empty, 0, <<5>>, MaxLiked, 0),
   Describe(Tennis, Striker, communication, 0, Empty, 0, << >>, 0, 0)}

NoRequired == Comma \o Space \o Comma

\* min_experience of the recommender's inputs.  Up to 2 every value the
\* code rounds at a tie is a float the machine represents exactly, so the
\* fractions here round as the floats do; from 3 on, a float sum of thirds
\* can miss the tie by one bit (51.499999999999993 for 51.5).
RecMinExp == 0..2

RecReqs ==
  {Requirement(Soccer, Goalkeeper, sk, me, lo) :
     sk \in {ExampleRequired, NoRequired, ThreeRequired}, me \in RecMinExp,
     lo \in {Empty, PuneMH}}

RecCoreReqs == {r \in RecReqs : r.location = Empty}

InitRec ==
  \/ \E ds \in SeqsUpTo(RecPool, 0, 1), rq \in RecReqs : Load(ds, <<rq>>)
  \/ \E ds \in SeqsUpTo(RecCore, 2, MaxPlayers), rq \in RecCoreReqs : Load(ds, <<rq>>)

NextRec == \E r \in 1..Len(requirements), n \in 0..MaxTopN : Idle /\ Recommend(r, n)

SpecRec == InitRec /\ [][NextRec]_vars

\* ------------------------------------------------------------------------
\* leaderboard
\* ------------------------------------------------------------------------
\* SQL LIKE as the database evaluates it: % stands for any run of
\* characters, _ for any one character, every other character for itself
RECURSIVE like(_, _)
like(pattern, text) ==
  IF pattern = << >> THEN text = << >>
  ELSE IF Head(pattern) = "%"
       THEN \/ like(Tail(pattern), text)
            \/ text # << >> /\ like(pattern, Tail(text))
       ELSE /\ text # << >>
            /\ Head(pattern) = "_" \/ Head(pattern) = Head(text)
            /\ like(Tail(pattern), Tail(text))

\* PlayerProfile.sport.ilike(f'%{sport_filter}%'): lower(sport) LIKE lower(pattern)
SportLike(p, sport_filter) ==
  like(lower(<<"%">> \o sport_filter \o <<"%">>), lower(p.sport))

AchievementCount(p, achs) ==
  LET mine(row) == row.player_id = p.id
  IN Len(SelectSeq(achs, mine))

ExperiencePointsAlt(p) == p.experience_years * 3
ExperiencePoints(p) == Min(p.experience_years * 3, 30)

\* the composite score of lines 716-722
Composite(p, rts, achs) ==
  FAdd(Frac(avg_rating(p, rts) * 20, 10),
  FAdd(Int2F(ExperiencePoints(p)),
  FAdd(FMin(Frac(p.profile_views, 2), Int2F(20)),
  FAdd(Int2F(Min(Len(skills_list(p.skills)) * 2, 20)),
       Int2F(Min(AchievementCount(p, achs) * 5, 10))))))

\* composite is in tenths: round(composite, 1); avg_rating is in tenths
BoardEntry(p, rts, achs) ==
  [player       |-> p.id,
   composite    |-> round1(Composite(p, rts, achs)),
   avg_rating   |-> avg_rating(p, rts),
   rating_count |-> Len(RatingsOf(p, rts))]

leaderboard(sport_filter, ps, rts, achs) ==
  LET matches(p) == SportLike(p, sport_filter)
      shown == IF sport_filter # Empty THEN SelectSeq(ps, matches) ELSE ps
      board == [i \in 1..Len(shown) |-> BoardEntry(shown[i], rts, achs)]
  IN sort_desc(board, "composite")

\* the handler: sport_filter = request.args.get('sport', '').strip()
Leaderboard(sport) ==
  /\ op' = "leaderboard"
  /\ arg' = [req |-> 0, sport |-> strip(sport)]
  /\ out' = leaderboard(strip(sport), players, ratings, achievements)
  /\ UNCHANGED <<players, ratings, interests, achievements, requirements,
                 views, inflight>>

\* ------------------------------------------------------------------------
\* Inputs of the leaderboard
\* ------------------------------------------------------------------------
RECURSIVE Repeat(_, _)
Repeat(word, n) ==
  IF n = 1 THEN word ELSE word \o Comma \o Repeat(word, n - 1)

BoardSkills == {Comma, leadership, Repeat(speed, 10), Repeat(speed, 11)}
\* the sport argument of the request: absent, blank, letters in either
\* case, and the two characters LIKE reads as wildcards
BoardFilters ==
  {Empty, Space, <<"o", "c", "c">>, <<" ", "T", "E", "N">>, <<"s", "_", "c">>,
   <<"%">>, <<"s", "o", "c", "c", "e", "r", "s">>}

BoardPool ==
  {Describe(sp, Striker, sk, ex, Empty, vw, st, 0, md) :
     sp \in {Soccer, Tennis}, sk \in BoardSkills, ex \in {0, 4, 10, 11},
     vw \in {0, 1, 40, 41}, st \in BoardStars, md \in 0..3}

\* Profiles for the stores with several players: two pairs with equal
\* composite and different sports, and two with a larger composite.
BoardCore ==
  {Describe(Soccer, Striker, leadership, 0, Empty, 0, << >>, 0, 0),
   Describe(Tennis, Striker, leadership, 0, Empty, 0, << >>, 0, 0),
   Describe(Tennis, Striker, leadership, 0, Empty, 1, << >>, 0, 0),
   Describe(soccer, Striker, leadership, 4, Empty, 0, <<5>>, 0, 0)}

InitBoard ==
  \E ds \in SeqsUpTo(BoardPool, 0, 1) \cup SeqsUpTo(BoardCore, 2, MaxPlayers) :
    Load(ds, << >>)

NextBoard == \E f \in BoardFilters : Idle /\ Leaderboard(f)

SpecBoard == InitBoard /\ [][NextBoard]_vars

\* ------------------------------------------------------------------------
\* compare_players
\* ------------------------------------------------------------------------
\* request.args.get('p1', type=int): << >> is None (argument absent or not an
\* integer), <<n>> the integer n
\* PlayerProfile.query.get(p_id) if p_id else None: the row as <<row>>, or
\* << >> for None; None and 0 are false and never reach the query
GetPlayer(p_id, ps) ==
  LET found(p) == p.id = p_id[1]
  IN IF p_id # << >> /\ p_id[1] # 0 THEN SelectSeq(ps, found) ELSE << >>

\* if p1 and p2 and p1.id != p2.id
CompareGuardAlt(p1, p2) == p1 # << >> /\ p2 # << >>
CompareGuard(p1, p2) == p1 # << >> /\ p2 # << >> /\ p1[1].id # p2[1].id

Range(s) == {s[i] : i \in 1..Len(s)}

\* avg_rating() * 20 + min(experience_years * 5, 50) + min(len(skills_list()) * 3, 30)
CompareScore(p, rts) ==
  FAdd(Frac(avg_rating(p, rts) * 20, 10),
  FAdd(Int2F(Min(p.experience_years * 5, 50)),
       Int2F(Min(Len(skills_list(p.skills)) * 3, 30))))

\* the comparison dict; the three skill lists are lists of sets, whose order
\* the code leaves open, and are kept as sets
Comparison(p1, p2, rts) ==
  LET p1_skills == Range(skills_list(p1.skills))
      p2_skills == Range(skills_list(p2.skills))
  IN [common_skills    |-> p1_skills \cap p2_skills,
      p1_unique_skills |-> p1_skills \ p2_skills,
      p2_unique_skills |-> p2_skills \ p1_skills,
      p1_score         |-> CompareScore(p1, rts),
      p2_score         |-> CompareScore(p2, rts)]

\* the comparison handed to the template: <<dict>>, or << >> for None
compare_players(p1_id, p2_id, ps, rts) ==
  LET p1 == GetPlayer(p1_id, ps)
      p2 == GetPlayer(p2_id, ps)
  IN IF CompareGuard(p1, p2)
     THEN <<Comparison(p1[1], p2[1], rts)>>
     ELSE << >>

Compare(p1_id, p2_id) ==
  /\ op' = "compare"
  /\ arg' = [req |-> 0, p1 |-> p1_id, p2 |-> p2_id]
  /\ out' = compare_players(p1_id, p2_id, players, ratings)
  /\ UNCHANGED <<players, ratings, interests, achievements, requirements,
                 views, inflight>>

\* ------------------------------------------------------------------------
\* The four computations on one store
\* ------------------------------------------------------------------------
\* Two profiles whose skills differ only in letter case and spacing, one
\* with a repeated skill, one that matches nothing of the requirement.
CorePool ==
  {Describe(Soccer, Goalkeeper, MixedSkills, 0, Empty, 0, << >>, 0, 0),
   Describe(soccer, GOALKEEPER, ExampleRequired, MaxExp, Empty, 1, <<5>>, 1, 1),
   Describe(Tennis, Striker, RepeatedSkills, 1, Empty, 0, <<3, 4>>, 0, 0),
   Describe(Tennis, Striker, leadership, 0, Empty, 0, << >>, 0, 0)}

CoreReq == Requirement(Soccer, Goalkeeper, ExampleRequired, 1, Empty)
CoreFilters == {Empty, <<"o", "c", "c">>}

\* the p1 and p2 arguments: absent, 0, negative, the ids of the store and
\* one id past them
CompareIds == {<< >>, <<-1>>} \cup {<<i>> : i \in 0..(MaxPlayers + 1)}

Init == \E ds \in SeqsUpTo(CorePool, 0, MaxPlayers) : Load(ds, <<CoreReq>>)

Next ==
  \/ \E r \in 1..Len(requirements) : Idle /\ Match(r)
  \/ \E r \in 1..Len(requirements), n \in 0..MaxTopN : Idle /\ Recommend(r, n)
  \/ \E f \in CoreFilters : Idle /\ Leaderboard(f)
  \/ \E a \in CompareIds, b \in CompareIds : Idle /\ Compare(a, b)

Spec == Init /\ [][Next]_vars

\* ------------------------------------------------------------------------
\* The skill parsing of lines 67-68 and 118-119 on its own
\* ------------------------------------------------------------------------
Parse(text) ==
  /\ op' = "parse"
  /\ arg' = [req |-> 0, text |-> text]
  /\ out' = <<skill_set(text)>>
  /\ UNCHANGED <<players, ratings, interests, achievements, requirements,
                 views, inflight>>

\* every string of up to MaxTextLen characters over two letters in
\* different case, the comma and the space
ParseChars == {"a", "B", ",", " "}
ParseTexts == SeqsUpTo(ParseChars, 0, MaxTextLen)

InitParse == Load(<< >>, << >>)
NextParse == \E text \in ParseTexts : Idle /\ Parse(text)
SpecParse == InitParse /\ [][NextParse]_vars

\* ------------------------------------------------------------------------
\* The handlers that change profiles and ratings.  They answer with a
\* redirect, so op, arg and out keep describing the call under observation.
\* ------------------------------------------------------------------------
\* users 1..NumTeams registered as teams, the later ones as players
Role(u) == IF u <= NumTeams THEN "team" ELSE "player"

ProfileOf(u, ps) ==
  LET mine(p) == p.user_id = u
  IN SelectSeq(ps, mine)

\* POST /profile: the form is rejected unless sport, position and skills are
\* non-empty after strip and experience_years is an integer >= 0; the
\* user's profile is updated, or created when there is none
player_profile(u, form) ==
  LET sport == strip(form.sport)
      position == strip(form.position)
      skills == strip(form.skills)
      location == strip(form.location)
      valid == /\ sport # Empty /\ position # Empty /\ skills # Empty
               /\ form.experience_years >= 0
      fresh == [id |-> Len(players) + 1, user_id |-> u, sport |-> sport,
                position |-> position, skills |-> skills,
                experience_years |-> form.experience_years,
                location |-> location, profile_views |-> 0]
  IN /\ Role(u) = "player"
     /\ players' =
          IF ~valid THEN players
          ELSE IF ProfileOf(u, players) = << >> THEN Append(players, fresh)
          ELSE [k \in 1..Len(players) |->
                  IF players[k].user_id = u
                  THEN [players[k] EXCEPT !.sport = sport, !.position = position,
                          !.skills = skills, !.location = location,
                          !.experience_years = form.experience_years]
                  ELSE players[k]]
     /\ UNCHANGED <<ratings, interests, achievements, requirements, views,
                    inflight, op, arg, out>>

\* rate_player accepts a request of a team for an existing profile with a
\* rating in 1..5; the form's rating is read with int(), absent it is 0
RatingAcceptedFromZero(u, player_id, rating) ==
  /\ Role(u) = "team"
  /\ \E k \in 1..Len(players) : players[k].id = player_id
  /\ 0 <= rating /\ rating <= 5

RatingAccepted(u, player_id, rating) ==
  /\ Role(u) = "team"
  /\ \E k \in 1..Len(players) : players[k].id = player_id
  /\ 1 <= rating /\ rating <= 5

\* POST /rate-player/<player_id>: a team's rating of 1..5 replaces the
\* rating it gave that profile before, or is added; any other request
\* changes nothing
rate_player(u, player_id, rating) ==
  /\ ratings' =
       IF ~RatingAccepted(u, player_id, rating) THEN ratings
       ELSE IF \E i \in 1..Len(ratings) :
                 ratings[i].player_id = player_id /\ ratings[i].rater_id = u
       THEN [i \in 1..Len(ratings) |->
               IF ratings[i].player_id = player_id /\ ratings[i].rater_id = u
               THEN [ratings[i] EXCEPT !.rating = rating]
               ELSE ratings[i]]
       ELSE Append(ratings, [player_id |-> player_id, rater_id |-> u,
                             rating |-> rating])
  /\ UNCHANGED <<players, interests, achievements, requirements, views,
                 inflight, op, arg, out>>

\* POST /interest/<req_id>: a player with a profile gets an interest row
\* for req_id unless one exists; req_id itself is not looked up
express_interest(u, req_id) ==
  /\ interests' =
       IF /\ Role(u) = "player"
          /\ ProfileOf(u, players) # << >>
          /\ ~\E i \in 1..Len(interests) :
                interests[i].player_id = u /\ interests[i].requirement_id = req_id
       THEN Append(interests, [player_id |-> u, requirement_id |-> req_id])
       ELSE interests
  /\ UNCHANGED <<players, ratings, achievements, requirements, views,
                 inflight, op, arg, out>>

\* POST /interest/withdraw/<req_id>: the user's interest row for req_id is
\* deleted if there is one
withdraw_interest(u, req_id) ==
  LET other(row) == ~(row.player_id = u /\ row.requirement_id = req_id)
  IN /\ interests' = SelectSeq(interests, other)
     /\ UNCHANGED <<players, ratings, achievements, requirements, views,
                    inflight, op, arg, out>>

\* ------------------------------------------------------------------------
\* analytics (player side): match_count.  The request runs in steps, one
\* per query, and other requests commit between them.  Its session keeps
\* every object it holds: the profile loaded at line 746 and, once
\* avg_rating() has read them, that profile's ratings.  A later query that
\* returns a row of an object the session holds answers with that object
\* as loaded, not with the row's new values.  The profiles of other players
\* are held by no variable between two matcher calls and are read anew.
\* arg carries the local variables of the request.
\* ------------------------------------------------------------------------
SessionRowFresh(held, row) == row
SessionRow(held, row) == held

\* PlayerProfile.query.all() as the request's session answers it
SessionPlayers(held, ps) ==
  [k \in 1..Len(ps) |->
     IF ps[k].id = held.id THEN SessionRow(held, ps[k]) ELSE ps[k]]

\* the ratings the request sees: those of its own profile as first read
SessionRatings(held, mine, rts) ==
  LET other(row) == row.player_id # held.id
  IN SelectSeq(rts, other) \o mine

\* profile = PlayerProfile.query.filter_by(user_id=current_user.id).first()
AnalyticsProfile(u) ==
  /\ op = "none"
  /\ Role(u) = "player"
  /\ ProfileOf(u, players) # << >>
  /\ op' = "analytics"
  /\ arg' = [req |-> 0, pc |-> "reqs", user |-> u,
              profile |-> ProfileOf(u, players)[1],
              loaded |-> FALSE, ratings |-> << >>, all_reqs |-> << >>,
              first |-> << >>, match_count |-> 0]
  /\ UNCHANGED <<players, ratings, interests, achievements, requirements,
                 views, inflight, out>>

\* the request after the requirement at arg.req: the next one, or the end
Advance(a, n) ==
  IF a.req < Len(a.all_reqs)
  THEN [a EXCEPT !.req = @ + 1, !.pc = "first", !.first = << >>, !.match_count = n]
  ELSE [a EXCEPT !.pc = "done", !.first = << >>, !.match_count = n]

\* all_reqs = TeamRequirement.query.all()
AnalyticsReqs ==
  /\ op = "analytics" /\ arg.pc = "reqs"
  /\ arg' = Advance([arg EXCEPT !.all_reqs = requirements], 0)
  /\ out' = IF requirements = << >> THEN <<[match_count |-> 0]>> ELSE out
  /\ UNCHANGED <<players, ratings, interests, achievements, requirements,
                 views, inflight, op>>

\* one matcher call of the request
SessionMatch(a) ==
  LET mine == IF a.loaded THEN a.ratings ELSE RatingsOf(a.profile, ratings)
  IN match_players_to_requirement(a.all_reqs[a.req],
       SessionPlayers(a.profile, players),
       SessionRatings(a.profile, mine, ratings))

Loaded(a) ==
  IF a.loaded THEN a
  ELSE [a EXCEPT !.loaded = TRUE, !.ratings = RatingsOf(a.profile, ratings)]

\* if match_players_to_requirement(r) and ...: the first call
AnalyticsFirst ==
  /\ op = "analytics" /\ arg.pc = "first"
  /\ LET res == SessionMatch(arg)
         next == IF res = << >>
                 THEN Advance(Loaded(arg), arg.match_count)
                 ELSE [Loaded(arg) EXCEPT !.pc = "second", !.first = res]
     IN /\ arg' = next
        /\ out' = IF next.pc = "done"
                   THEN <<[match_count |-> next.match_count]>> ELSE out
  /\ UNCHANGED <<players, ratings, interests, achievements, requirements,
                 views, inflight, op>>

\* any(m['player'].id == profile.id for m in match_players_to_requirement(r))
AnalyticsSecond ==
  /\ op = "analytics" /\ arg.pc = "second"
  /\ LET res == SessionMatch(arg)
         found == \E i \in 1..Len(res) : res[i].player = arg.profile.id
         next == Advance(arg, arg.match_count + (IF found THEN 1 ELSE 0))
     IN /\ arg' = next
        /\ out' = IF next.pc = "done"
                   THEN <<[match_count |-> next.match_count]>> ELSE out
  /\ UNCHANGED <<players, ratings, interests, achievements, requirements,
                 views, inflight, op>>

\* ------------------------------------------------------------------------
\* Inputs of analytics: one profile that matches nothing of the first
\* requirement, a team that rates, and forms that change a profile
\* ------------------------------------------------------------------------
Form(sp, po, sk, ex, lo) ==
  [sport |-> sp, position |-> po, skills |-> sk, experience_years |-> ex,
   location |-> lo]

AnalyticsForms ==
  {Form(Tennis, Striker, leadership, 0, Empty),
   Form(Space \o Soccer, Goalkeeper, ExampleRequired, 1, Empty),
   Form(Soccer, Goalkeeper, Space, 1, Empty),
   Form(Soccer, Goalkeeper, speed, -1, Empty)}

AnalyticsStars == {0, 1, 5}
AnalyticsUsers == {1} \cup {NumTeams + i : i \in 1..2}

InitAnalytics ==
  Load(<<Describe(Tennis, Striker, leadership, 0, Empty, 0, << >>, 0, 0)>>,
       <<CoreReq, OtherRequirement>>)

NextAnalytics ==
  \/ \E u \in AnalyticsUsers : AnalyticsProfile(u)
  \/ AnalyticsReqs
  \/ AnalyticsFirst
  \/ AnalyticsSecond
  \/ \E u \in AnalyticsUsers, form \in AnalyticsForms : player_profile(u, form)
  \/ \E u \in AnalyticsUsers, k \in 1..Len(players), n \in AnalyticsStars :
       rate_player(u, players[k].id, n)

SpecAnalytics == InitAnalytics /\ [][NextAnalytics]_vars

\* ------------------------------------------------------------------------
\* Interests changing, then one recommendation.  The first profile's user
\* expresses and withdraws interest in the MaxLiked requirements of the
\* store and in one id past them; a team and a player without profile try
\* the same; the second profile has no interest or two from the start.
\* ------------------------------------------------------------------------
SocialStores ==
  {<<Describe(soccer, GOALKEEPER, ExampleSkills, 1, Empty, 0, << >>, 0, 0),
     Describe(Tennis, Striker, speed, 1, Empty, 0, <<5>>, lk, 0)>> :
     lk \in {0, 2}}

SocialReqs == <<CoreReq>> \o [k \in 1..(MaxLiked - 1) |-> OtherRequirement]
SocialUsers == {1, NumTeams + 1, NumTeams + 3}

InitSocial == \E ds \in SocialStores : Load(ds, SocialReqs)

NextSocial ==
  \/ \E u \in SocialUsers, k \in 1..(MaxLiked + 1) : Idle /\ express_interest(u, k)
  \/ \E u \in SocialUsers, k \in 1..(MaxLiked + 1) : Idle /\ withdraw_interest(u, k)
  \/ \E r \in 1..Len(requirements) : Idle /\ Recommend(r, MaxTopN)

SpecSocial == InitSocial /\ [][NextSocial]_vars

\* ------------------------------------------------------------------------
\* Ratings changing.  Two teams and a player send ratings, valid and not,
\* for the two profiles of the store and for an id no profile has; the
\* first profile starts unrated or rated by both teams.
\* ------------------------------------------------------------------------
RatingStores ==
  {<<Describe(Soccer, Goalkeeper, ExampleSkills, 1, Empty, 0, st, 0, 0),
     Describe(Tennis, Striker, speed, 0, Empty, 0, << >>, 0, 0)>> :
     st \in {<< >>, <<4, 5>>}}

RatingUsers == {1, 2, NumTeams + 1}
RatingIds == 1..3
RatingForms == {-1, 0, 1, 2, 5, 6}

InitRating == \E ds \in RatingStores : Load(ds, <<CoreReq>>)

NextRating ==
  \E u \in RatingUsers, player_id \in RatingIds, rating \in RatingForms :
    rate_player(u, player_id, rating)

SpecRating == InitRating /\ [][NextRating]_vars

\* ------------------------------------------------------------------------
\* Requests in steps.  The development server answers each request on a
\* thread of its own, with a session of its own: a handler's queries and
\* its commit are separate steps, and other threads' steps fall between
\* them.  inflight[w] holds what thread w has read so far.
\* ------------------------------------------------------------------------
HasInterest(ints, u, req_id) ==
  \E i \in 1..Len(ints) :
    ints[i].player_id = u /\ ints[i].requirement_id = req_id

InsertInterestUnchecked(ints, u, req_id) ==
  Append(ints, [player_id |-> u, requirement_id |-> req_id])

\* INSERT INTO interests at commit: the table's unique constraint on
\* (player_id, requirement_id) refuses a second row of the pair, the
\* commit raises and nothing is written
InsertInterest(ints, u, req_id) ==
  IF HasInterest(ints, u, req_id) THEN ints
  ELSE Append(ints, [player_id |-> u, requirement_id |-> req_id])

\* express_interest up to its last query: a user who is no player, has no
\* profile or has the row already is answered at once
ExpressInterestQuery(w, u, req_id) ==
  /\ inflight[w] = NoRequest
  /\ inflight' =
       IF /\ Role(u) = "player"
          /\ ProfileOf(u, players) # << >>
          /\ ~HasInterest(interests, u, req_id)
       THEN [inflight EXCEPT ![w] = [handler |-> "express_interest",
                                     user |-> u, req_id |-> req_id]]
       ELSE inflight
  /\ UNCHANGED <<players, ratings, interests, achievements, requirements,
                 views, op, arg, out>>

\* express_interest, add and commit
ExpressInterestCommit(w) ==
  /\ inflight[w].handler = "express_interest"
  /\ interests' = InsertInterest(interests, inflight[w].user, inflight[w].req_id)
  /\ inflight' = [inflight EXCEPT ![w] = NoRequest]
  /\ UNCHANGED <<players, ratings, achievements, requirements, views,
                 op, arg, out>>

\* a thread that holds the row of (u, req_id) once that row is deleted
RowDeleted(r, u, req_id) ==
  IF /\ r.handler = "withdraw_interest"
     /\ r.user = u /\ r.req_id = req_id
  THEN [r EXCEPT !.gone = TRUE]
  ELSE r

\* withdraw_interest up to its query: the thread holds the row it found
WithdrawInterestQuery(w, u, req_id) ==
  /\ inflight[w] = NoRequest
  /\ inflight' =
       IF HasInterest(interests, u, req_id)
       THEN [inflight EXCEPT ![w] = [handler |-> "withdraw_interest",
                                     user |-> u, req_id |-> req_id,
                                     gone |-> FALSE]]
       ELSE inflight
  /\ UNCHANGED <<players, ratings, interests, achievements, requirements,
                 views, op, arg, out>>

\* withdraw_interest, delete and commit: DELETE by the primary key of the
\* row found, which matches nothing once another thread deleted that row
\* (the threads that hold the deleted row are marked: a row inserted for
\* the pair later is another row)
WithdrawInterestCommit(w) ==
  LET u == inflight[w].user
      req_id == inflight[w].req_id
      other(row) == ~(row.player_id = u /\ row.requirement_id = req_id)
  IN /\ inflight[w].handler = "withdraw_interest"
     /\ interests' = IF inflight[w].gone THEN interests
                     ELSE SelectSeq(interests, other)
     /\ inflight' =
          [v \in Threads |->
             IF v = w THEN NoRequest
             ELSE IF inflight[w].gone THEN inflight[v]
             ELSE RowDeleted(inflight[v], u, req_id)]
     /\ UNCHANGED <<players, ratings, achievements, requirements, views,
                    op, arg, out>>

\* Two players with a profile, a team and a player without profile send
\* express_interest and withdraw_interest for two requirements; the
\* second profile's user has no interest or two from the start.
InterestUsers == {1, NumTeams + 1, NumTeams + 2, NumTeams + 3}
InterestReqs == 1..2

InitInterest == \E ds \in SocialStores : Load(ds, SocialReqs)

NextInterest ==
  \/ \E w \in Threads, u \in InterestUsers, k \in InterestReqs :
       ExpressInterestQuery(w, u, k)
  \/ \E w \in Threads : ExpressInterestCommit(w)
  \/ \E w \in Threads, u \in InterestUsers, k \in InterestReqs :
       WithdrawInterestQuery(w, u, k)
  \/ \E w \in Threads : WithdrawInterestCommit(w)

SpecInterest == InitInterest /\ [][NextInterest]_vars

\* ------------------------------------------------------------------------
\* player_detail in steps: the profile is loaded, the viewer's row is
\* looked up, and a first view is written.  The thread's session keeps the
\* profile as loaded, so profile_views += 1 adds one to the value read at
\* the first step and the commit writes that sum.
\* ------------------------------------------------------------------------
HasView(vs, profile_id, u) ==
  \E i \in 1..Len(vs) : vs[i].profile_id = profile_id /\ vs[i].viewer_id = u

\* PlayerProfile.query.get_or_404(player_id)
PlayerDetailLoad(w, u, player_id) ==
  /\ inflight[w] = NoRequest
  /\ inflight' =
       IF \E k \in 1..Len(players) : players[k].id = player_id
       THEN [inflight EXCEPT ![w] =
               [handler |-> "player_detail", pc |-> "query", user |-> u,
                profile |-> GetPlayer(<<player_id>>, players)[1]]]
       ELSE inflight
  /\ UNCHANGED <<players, ratings, interests, achievements, requirements,
                 views, op, arg, out>>

\* the owner's own view and a viewer who has a row are answered without a
\* write
PlayerDetailQuery(w) ==
  LET q == inflight[w]
  IN /\ q.handler = "player_detail" /\ q.pc = "query"
     /\ inflight' =
          IF /\ q.user # q.profile.user_id
             /\ ~HasView(views, q.profile.id, q.user)
          THEN [inflight EXCEPT ![w].pc = "commit"]
          ELSE [inflight EXCEPT ![w] = NoRequest]
     /\ UNCHANGED <<players, ratings, interests, achievements, requirements,
                    views, op, arg, out>>

\* add(ProfileView(...)); profile.profile_views += 1; commit: the table
\* has no unique constraint, the row is always inserted
PlayerDetailCommit(w) ==
  LET q == inflight[w]
  IN /\ q.handler = "player_detail" /\ q.pc = "commit"
     /\ views' = Append(views, [profile_id |-> q.profile.id,
                                 viewer_id |-> q.user])
     /\ players' = [k \in 1..Len(players) |->
                      IF players[k].id = q.profile.id
                      THEN [players[k] EXCEPT
                              !.profile_views = q.profile.profile_views + 1]
                      ELSE players[k]]
     /\ inflight' = [inflight EXCEPT ![w] = NoRequest]
     /\ UNCHANGED <<ratings, interests, achievements, requirements,
                    op, arg, out>>

\* Two teams and the owner open the page of the one profile of the store,
\* which starts unseen or seen by the first team, and a page of no profile.
ViewStores ==
  {<<Describe(Soccer, Goalkeeper, ExampleSkills, 1, Empty, vw, << >>, 0, 0)>> :
     vw \in {0, 1}}

ViewUsers == {1, 2, NumTeams + 1}
ViewIds == 1..2

InitViews == \E ds \in ViewStores : Load(ds, <<CoreReq>>)

NextViews ==
  \/ \E w \in Threads, u \in ViewUsers, player_id \in ViewIds :
       PlayerDetailLoad(w, u, player_id)
  \/ \E w \in Threads : PlayerDetailQuery(w)
  \/ \E w \in Threads : PlayerDetailCommit(w)

SpecViews == InitViews /\ [][NextViews]_vars

\* ------------------------------------------------------------------------
\* Properties of match_players_to_requirement
\* ------------------------------------------------------------------------
Called(f) == op = f /\ arg.req \in 1..Len(requirements)
TheReq == requirements[arg.req]
PlayerById(id) == players[CHOOSE k \in 1..Len(players) : players[k].id = id]
PosInStore(id) == CHOOSE k \in 1..Len(players) : players[k].id = id
Occurrences(id) == Cardinality({i \in 1..Len(out) : out[i].player = id})

\* Two strings are equal ignoring case: same length, and at every index
\* the same letter in either case.
SameLetter(a, b) ==
  \/ a = b
  \/ \E i \in 1..26 : {a, b} = {UpperCase[i], LowerCase[i]}
EqIgnoreCase(a, b) ==
  Len(a) = Len(b) /\ \A i \in 1..Len(a) : SameLetter(a[i], b[i])

\* The score table of the specification
TableScore(p, r) ==
  LET avg == avg_rating(p, ratings)
  IN (IF EqIgnoreCase(p.sport, r.sport) THEN 3 ELSE 0)
   + (IF EqIgnoreCase(p.position, r.position) THEN 2 ELSE 0)
   + (IF p.experience_years >= r.min_experience THEN 1 ELSE 0)
   + Cardinality({t \in skill_set(p.skills) : t \in skill_set(r.skills_required)})
   + (IF avg >= 45 THEN 2 ELSE IF 35 <= avg /\ avg < 45 THEN 1 ELSE 0)

\* C1: the matcher returns exactly the players with score > 0, each once,
\* never one with score <= 0, ordered by score non-increasing.
C1_MatchFilterSorted ==
  Called("match") =>
    /\ \A i \in 1..Len(out) : out[i].score > 0
    /\ \A k \in 1..Len(players) :
         Occurrences(players[k].id) =
           (IF TableScore(players[k], TheReq) > 0 THEN 1 ELSE 0)
    /\ \A i \in 1..Len(out) : \A j \in (i + 1)..Len(out) :
         out[i].score >= out[j].score

C1_Witness ==
  /\ Called("match")
  /\ Len(out) >= 2
  /\ Len(out) < Len(players)
  /\ out[1].score > out[Len(out)].score

\* C2: every returned score is the table's sum of the sport, position,
\* experience, skill and rating points, a player is left out only when that
\* sum is 0, and the Soccer/Goalkeeper example scores exactly 9.
IsExample ==
  /\ Len(players) = 1
  /\ players[1].sport = Soccer /\ players[1].position = Goalkeeper
  /\ players[1].skills = reflexes \o Comma \o communication \o Comma \o leadership
  /\ players[1].experience_years = 3
  /\ avg_rating(players[1], ratings) = 40
  /\ TheReq.sport = Soccer /\ TheReq.position = Goalkeeper
  /\ TheReq.skills_required = reflexes \o Comma \o communication
  /\ TheReq.min_experience = 2

C2_MatchScoreFormula ==
  Called("match") =>
    /\ \A i \in 1..Len(out) :
         out[i].score = TableScore(PlayerById(out[i].player), TheReq)
    /\ \A k \in 1..Len(players) :
         Occurrences(players[k].id) = 0 => TableScore(players[k], TheReq) = 0
    /\ IsExample => Len(out) = 1 /\ out[1].score = 9

C2_Witness == Called("match") /\ IsExample /\ out[1].score = 9

\* C5: two returned players with equal score keep the order in which the
\* store's player query returned them.
C5_MatchStable ==
  Called("match") =>
    \A i \in 1..Len(out) : \A j \in (i + 1)..Len(out) :
      out[i].score = out[j].score =>
        PosInStore(out[i].player) < PosInStore(out[j].player)

C5_Witness ==
  /\ Called("match")
  /\ \E i \in 1..Len(out) : \E j \in (i + 1)..Len(out) :
       /\ out[i].score = out[j].score
       /\ \E k \in 1..Len(players) :
            /\ k < PosInStore(out[i].player)
            /\ TableScore(players[k], TheReq) \in 1..(out[i].score - 1)

\* C6: giving a player one more required skill it did not have, everything
\* else unchanged, raises its match score by exactly 1.
ScoreIn(res, id) ==
  IF \E i \in 1..Len(res) : res[i].player = id
  THEN res[CHOOSE i \in 1..Len(res) : res[i].player = id].score
  ELSE 0
WithSkill(ps, k, tok) ==
  [ps EXCEPT ![k].skills = @ \o Comma \o Space \o tok]
MissingSkills(p, r) == skill_set(r.skills_required) \ skill_set(p.skills)

C6_MatchSkillMonotonic ==
  Called("match") =>
    \A k \in 1..Len(players) : \A tok \in MissingSkills(players[k], TheReq) :
      ScoreIn(match_players_to_requirement(TheReq, WithSkill(players, k, tok), ratings),
              players[k].id)
        = ScoreIn(out, players[k].id) + 1

C6_Witness ==
  /\ Called("match")
  /\ \E k \in 1..Len(players) :
       /\ MissingSkills(players[k], TheReq) # {}
       /\ MatchedSkills(players[k], TheReq) # {}
       /\ ScoreIn(out, players[k].id) > 0

\* ------------------------------------------------------------------------
\* Properties of ai_recommend_players
\* ------------------------------------------------------------------------
Abs(x) == IF x < 0 THEN -x ELSE x

\* The factor table of the specification in integers: every value is
\* multiplied by scale, which the divisors of the table divide.
TableAi(p, r) ==
  LET req == skill_set(r.skills_required)
      n   == Cardinality(req)
      m   == Cardinality({t \in req : t \in skill_set(p.skills)})
      me  == r.min_experience
      e   == p.experience_years
      c   == Cardinality({i \in 1..Len(interests) :
                            interests[i].player_id = p.user_id})
      S   == 10 * (IF n = 0 THEN 1 ELSE n) * (IF me = 0 THEN 1 ELSE me)
      skill  == IF n = 0 THEN 0 ELSE (40 * m * S) \div n
      sport  == IF EqIgnoreCase(p.sport, r.sport) THEN 20 * S ELSE 0
      pos    == IF EqIgnoreCase(p.position, r.position) THEN 15 * S ELSE 0
      exp    == IF me > 0
                THEN (IF e >= 2 * me THEN 10 * S ELSE (5 * e * S) \div me)
                ELSE (IF e > 0 THEN 10 * S ELSE 5 * S)
      rating == (avg_rating(p, ratings) * 2 * S) \div 10
      social == (Min(15 * c, 50) * S) \div 10
      loc    == LocScore(p, r) * S
  IN [scale |-> S, skill_match |-> skill, sport |-> sport, position |-> pos,
      experience |-> exp, rating |-> rating, social |-> social,
      location |-> loc,
      total |-> skill + sport + pos + exp + rating + social + loc]

Raw(id) == TableAi(PlayerById(id), TheReq)
RawOf(k) == TableAi(players[k], TheReq)
Eligible(k) == RawOf(k).total > 10 * RawOf(k).scale
Returned(k) == \E i \in 1..Len(out) : out[i].player = players[k].id
\* unrounded scores of one state share the scale of the requirement
RawLess(a, b) == a.total * b.scale < b.total * a.scale

\* C3: the recommender returns at most top_n entries, each of a player whose
\* unrounded ai_score is strictly greater than 10.
C3_RecTopNAndThreshold ==
  Called("recommend") =>
    /\ Len(out) <= arg.top_n
    /\ \A i \in 1..Len(out) :
         Raw(out[i].player).total > 10 * Raw(out[i].player).scale

C3_Witness ==
  /\ Called("recommend")
  /\ arg.top_n >= 1
  /\ Len(out) = arg.top_n
  /\ \E k \in 1..Len(players) : Eligible(k) /\ ~Returned(k)
  /\ \E k \in 1..Len(players) : ~Eligible(k)

\* C4 as stated: the returned entries are ordered by the unrounded sum, a
\* player cut off by top_n never has a larger unrounded sum than a returned
\* one, and entries with equal unrounded sums keep the store's order.
C4_RankByUnrounded ==
  Called("recommend") =>
    /\ \A i \in 1..Len(out) : \A j \in (i + 1)..Len(out) :
         /\ ~RawLess(Raw(out[i].player), Raw(out[j].player))
         /\ (~RawLess(Raw(out[j].player), Raw(out[i].player)))
              => PosInStore(out[i].player) < PosInStore(out[j].player)
    /\ \A k \in 1..Len(players) : \A i \in 1..Len(out) :
         (Eligible(k) /\ ~Returned(k)) => ~RawLess(Raw(out[i].player), RawOf(k))

\* C4 (amended): the returned entries are ordered by the ai_score rounded to
\* one decimal, a player cut off by top_n never has a larger rounded
\* ai_score than a returned one, and entries with equal rounded ai_score
\* keep the store's order.
Tenths(k) == round1(Frac(RawOf(k).total, RawOf(k).scale))

C4_RankByRounded ==
  Called("recommend") =>
    /\ \A i \in 1..Len(out) : \A j \in (i + 1)..Len(out) :
         /\ out[i].ai_score >= out[j].ai_score
         /\ out[i].ai_score = out[j].ai_score
              => PosInStore(out[i].player) < PosInStore(out[j].player)
    /\ \A k \in 1..Len(players) : \A i \in 1..Len(out) :
         (Eligible(k) /\ ~Returned(k)) => Tenths(k) <= out[i].ai_score

C4_Witness ==
  /\ Called("recommend")
  /\ \E i \in 1..Len(out) : \E j \in (i + 1)..Len(out) :
       /\ out[i].ai_score = out[j].ai_score
       /\ RawLess(Raw(out[i].player), Raw(out[j].player))

\* C7: when the requirement's skills parse to no token, the skill factor of
\* every player is 0 and the call returns.
NoReqSkills == skill_set(TheReq.skills_required) = {}

C7_RecNoRequiredSkills ==
  (Called("recommend") /\ NoReqSkills) =>
    /\ \A k \in 1..Len(players) :
         FEq(Factors(players[k], TheReq, ratings, interests).skill_match, Int2F(0))
    /\ \A i \in 1..Len(out) : out[i].breakdown.skill_match = 0

C7_Witness ==
  /\ Called("recommend")
  /\ NoReqSkills
  /\ TheReq.skills_required # Empty
  /\ Len(out) >= 1
  /\ skill_set(PlayerById(out[1].player).skills) # {}

\* C8: every factor stays in its range, the ai_score of an entry is the sum
\* of the seven unrounded factors (to the nearest tenth), and it never
\* exceeds 110.
InRange(x, lo, hi) == FLe(Int2F(lo), x) /\ FLe(x, Int2F(hi))
OneOf(x, a, b) == FEq(x, Int2F(a)) \/ FEq(x, Int2F(b))

BreakdownSum(b) ==
  b.skill_match + b.sport + b.position + b.experience + b.rating
    + b.social + b.location

IsRoundOf(n, t) ==
  /\ 2 * Abs(t.total - n * t.scale) <= t.scale
  /\ 2 * Abs(t.total - n * t.scale) = t.scale => n % 2 = 0

C9_RecConfidence ==
  Called("recommend") =>
    \A i \in 1..Len(out) :
      LET t == Raw(out[i].player)
          c == out[i].confidence
      IN /\ c \in 0..100
         /\ c < 100 => IsRoundOf(c, t)
         /\ c = 100 => 2 * t.total >= 199 * t.scale
         /\ 2 * t.total > 199 * t.scale => c = 100

C9_Witness ==
  /\ Called("recommend")
  /\ \E i \in 1..Len(out) :
       out[i].confidence # Min(round(Frac(out[i].ai_score, 10)), 100)

\* ------------------------------------------------------------------------
\* Properties of the leaderboard
\* ------------------------------------------------------------------------
\* C10 as stated: the composite score lies in 0..110.
C10_CompositeAtMost110 ==
  op = "leaderboard" =>
    \A i \in 1..Len(out) : out[i].composite >= 0 /\ out[i].composite <= 1100

\* C10 (amended): the composite score lies in 0..180, the sum of the caps
\* 100 + 30 + 20 + 20 + 10 of its five terms.
C10_CompositeRange ==
  op = "leaderboard" =>
    \A i \in 1..Len(out) : out[i].composite >= 0 /\ out[i].composite <= 1800

C10_Witness ==
  /\ op = "leaderboard"
  /\ \E i \in 1..Len(out) :
       /\ out[i].composite = 1800
       /\ PlayerById(out[i].player).experience_years > 10
       /\ PlayerById(out[i].player).profile_views > 40

\* C11: the leaderboard holds exactly the players whose sport contains the
\* filter as a case-insensitive substring (every player when the filter is
\* empty), each once, ordered by composite non-increasing, and players with
\* equal composite keep the order of the store.
IsSubstringNoCase(needle, hay) == contains(lower(needle), lower(hay))

C11_LeaderboardSubstringFilter ==
  op = "leaderboard" =>
    /\ \A k \in 1..Len(players) :
         Occurrences(players[k].id) =
           (IF arg.sport = Empty \/ IsSubstringNoCase(arg.sport, players[k].sport)
            THEN 1 ELSE 0)
    /\ \A i \in 1..Len(out) : \A j \in (i + 1)..Len(out) :
         /\ out[i].composite >= out[j].composite
         /\ out[i].composite = out[j].composite
              => PosInStore(out[i].player) < PosInStore(out[j].player)

\* ------------------------------------------------------------------------
\* Properties of compare_players
\* ------------------------------------------------------------------------
Exists(p_id) == p_id # << >> /\ \E k \in 1..Len(players) : players[k].id = p_id[1]

\* C12: compare_players produces a comparison exactly when both identifiers
\* name existing players and the two differ; with an identifier missing,
\* naming nobody, or both the same, the comparison is None.
C12_CompareGuard ==
  op = "compare" =>
    /\ Len(out) <= 1
    /\ out # << >> <=>
         (Exists(arg.p1) /\ Exists(arg.p2) /\ arg.p1[1] # arg.p2[1])

C12_Witness ==
  /\ op = "compare"
  /\ out = << >>
  /\ Exists(arg.p1) /\ arg.p2 = arg.p1

\* C13: common_skills, p1_unique_skills and p2_unique_skills are the
\* intersection and the two differences of the players' skill sets over
\* lowercased, trimmed tokens, so two players whose skill strings differ
\* only in letter case or surrounding whitespace have every skill in
\* common_skills and both unique sets empty.
Lowered(tokens) == {lower(t) : t \in tokens}
FirstPlayer == PlayerById(arg.p1[1])
SecondPlayer == PlayerById(arg.p2[1])

C13_CompareSkillsLowercased ==
  (op = "compare" /\ out # << >>) =>
    LET a == skill_set(FirstPlayer.skills)
        b == skill_set(SecondPlayer.skills)
    IN /\ Lowered(out[1].common_skills) = a \cap b
       /\ Lowered(out[1].p1_unique_skills) = a \ b
       /\ Lowered(out[1].p2_unique_skills) = b \ a
       /\ a = b => /\ out[1].p1_unique_skills = {}
                   /\ out[1].p2_unique_skills = {}

\* ------------------------------------------------------------------------
\* Skill strings that differ only in the letter case of tokens and in the
\* whitespace around tokens
\* ------------------------------------------------------------------------
UpperChar(c) ==
  IF \E i \in 1..26 : LowerCase[i] = c
  THEN UpperCase[CHOOSE i \in 1..26 : LowerCase[i] = c]
  ELSE c
upper(s) == [i \in 1..Len(s) |-> UpperChar(s[i])]
SwapFirst(s) ==
  IF s = << >> THEN s
  ELSE <<IF UpperChar(s[1]) = s[1] THEN LowerChar(s[1]) ELSE UpperChar(s[1])>>
         \o Tail(s)
Padded(s) ==
  Space \o Flatten([i \in 1..Len(s) |->
                      IF s[i] = "," THEN <<" ", ",", " ", " ">> ELSE <<s[i]>>])
        \o Space
Variants(s) ==
  {upper(s), lower(s), SwapFirst(s), Padded(s), Padded(SwapFirst(s))} \ {s}

SameButCaseAndSpace(a, b) ==
  LET x == skills_list(a)
      y == skills_list(b)
  IN Len(x) = Len(y) /\ \A i \in 1..Len(x) : lower(x[i]) = lower(y[i])

WithSkills(k, v) == [players EXCEPT ![k].skills = v]

\* C14: the leaderboard composite and the two scores of a comparison do not
\* change when a player's skills string is replaced by one that differs
\* only in the letter case of tokens and the whitespace around tokens.
C14_ScoresIgnoreCaseAndSpace ==
  \A k \in 1..Len(players) : \A v \in Variants(players[k].skills) :
    /\ op = "leaderboard" =>
         leaderboard(arg.sport, WithSkills(k, v), ratings, achievements) = out
    /\ (op = "compare" /\ out # << >>) =>
         LET again == compare_players(arg.p1, arg.p2, WithSkills(k, v), ratings)
         IN /\ again # << >>
            /\ again[1].p1_score = out[1].p1_score
            /\ again[1].p2_score = out[1].p2_score

C14_Witness ==
  /\ op = "compare"
  /\ out # << >>
  /\ FirstPlayer.skills # SecondPlayer.skills
  /\ SameButCaseAndSpace(FirstPlayer.skills, SecondPlayer.skills)
  /\ Variants(FirstPlayer.skills) # {}
  /\ out[1].common_skills # {}
  /\ out[1].p1_unique_skills # {}

\* ------------------------------------------------------------------------
\* Properties of the skill parsing
\* ------------------------------------------------------------------------
\* the order of the characters in use
CharOrder == <<" ", "%", ",">> \o UpperCase \o <<"_">> \o LowerCase
Rank(c) == CHOOSE i \in 1..Len(CharOrder) : CharOrder[i] = c

RECURSIVE LexLe(_, _)
LexLe(a, b) ==
  IF a = << >> THEN TRUE
  ELSE IF b = << >> THEN FALSE
  ELSE IF Head(a) = Head(b) THEN LexLe(Tail(a), Tail(b))
  ELSE Rank(Head(a)) < Rank(Head(b))

\* ','.join(sorted(tokens))
RECURSIVE Serialize(_)
Serialize(tokens) ==
  IF tokens = {} THEN Empty
  ELSE LET least == CHOOSE t \in tokens : \A u \in tokens : LexLe(t, u)
       IN IF tokens = {least} THEN least
          ELSE least \o Comma \o Serialize(tokens \ {least})

\* C15: parsing a skills string, writing the token set sorted and joined by
\* commas and parsing that again gives the same token set; every token is
\* non-empty, trimmed, lowercased and free of commas; parsing returns a set
\* for every string.
C15_ParseRoundTrip ==
  op = "parse" =>
    /\ Len(out) = 1
    /\ skill_set(Serialize(out[1])) = out[1]
    /\ \A t \in out[1] :
         /\ t # Empty
         /\ ~IsSpace(t[1]) /\ ~IsSpace(t[Len(t)])
         /\ \A i \in 1..Len(t) : t[i] # "," /\ t[i] \notin Range(UpperCase)

C15_Witness ==
  /\ op = "parse"
  /\ Cardinality(out[1]) = 1
  /\ Len(split(arg.text, ",")) = 3
  /\ IsSpace(arg.text[1])
  /\ lower(arg.text) # arg.text
  /\ Serialize(out[1]) # arg.text

\* ------------------------------------------------------------------------
\* Properties of all four computations
\* ------------------------------------------------------------------------
NonNeg(x) == x.den > 0 /\ x.num >= 0
Unrated(p) == \A i \in 1..Len(ratings) : ratings[i].player_id # p.id
Validated ==
  /\ \A k \in 1..Len(players) :
       players[k].experience_years >= 0 /\ players[k].profile_views >= 0
  /\ \A r \in 1..Len(requirements) : requirements[r].min_experience >= 0

\* C16: every score is >= 0: the match score, the ai_score and each of its
\* factors, the leaderboard composite and both compare scores; a player
\* without ratings has avg_rating 0, and the rating term of each score is 0.
C16_ScoresNonNegative ==
  Validated =>
    /\ \A k \in 1..Len(players) :
         LET p == players[k]
         IN /\ NonNeg(Composite(p, ratings, achievements))
            /\ NonNeg(CompareScore(p, ratings))
            /\ \A r \in 1..Len(requirements) :
                 LET f == Factors(p, requirements[r], ratings, interests)
                 IN /\ MatchScore(p, requirements[r], ratings) >= 0
                    /\ \A name \in DOMAIN f : NonNeg(f[name])
                    /\ NonNeg(SumFactors(f))
            /\ Unrated(p) =>
                 /\ avg_rating(p, ratings) = 0
                 /\ MatchBonus(avg_rating(p, ratings)) = 0
                 /\ RatingScore(p, ratings).num = 0
    /\ op = "match" => \A i \in 1..Len(out) : out[i].score >= 0
    /\ op = "recommend" =>
         \A i \in 1..Len(out) :
           /\ out[i].ai_score >= 0
           /\ \A name \in DOMAIN out[i].breakdown : out[i].breakdown[name] >= 0
    /\ op = "leaderboard" =>
         \A i \in 1..Len(out) :
           /\ out[i].composite >= 0
           /\ Unrated(PlayerById(out[i].player)) => out[i].avg_rating = 0
    /\ (op = "compare" /\ out # << >>) =>
         /\ NonNeg(out[1].p1_score) /\ NonNeg(out[1].p2_score)
         /\ Unrated(FirstPlayer) =>
              FEq(out[1].p1_score,
                  Int2F(Min(FirstPlayer.experience_years * 5, 50)
                          + Min(Len(skills_list(FirstPlayer.skills)) * 3, 30)))

C16_Witness ==
  /\ op = "match"
  /\ \E k \in 1..Len(players) :
       /\ Unrated(players[k])
       /\ MatchScore(players[k], TheReq, ratings) = 0
  /\ \E i \in 1..Len(out) : Unrated(PlayerById(out[i].player))
  /\ \E i \in 1..Len(out) : ~Unrated(PlayerById(out[i].player))

\* C17: a call of the matcher or the recommender, and the score computation
\* of the leaderboard and of compare_players, leaves every record of the
\* store as it was, and the same call on the store it left returns the
\* result again.
store == <<players, ratings, interests, achievements, requirements, views>>

ResultOn(ps, rts, ints, achs, reqs) ==
  IF op = "match"
  THEN match_players_to_requirement(reqs[arg.req], ps, rts)
  ELSE IF op = "recommend"
  THEN ai_recommend_players(reqs[arg.req], arg.top_n, ps, rts, ints)
  ELSE IF op = "leaderboard"
  THEN leaderboard(arg.sport, ps, rts, achs)
  ELSE IF op = "compare"
  THEN compare_players(arg.p1, arg.p2, ps, rts)
  ELSE out

SecondCallAgrees ==
  ResultOn(players, ratings, interests, achievements, requirements) = out

InFirst == \E i \in 1..Len(arg.first) : arg.first[i].player = arg.profile.id

\* C18: match_count, computed with two matcher calls per requirement, is
\* what one call per requirement with its result reused gives: the second
\* call adds 1 exactly when the first call's result holds the player, also
\* when other requests changed profiles or ratings between the two calls,
\* and a requirement whose first call is empty adds nothing.
C18_MatchCountTwoCalls ==
  [][/\ (op = "analytics" /\ arg.pc = "second" /\ arg' # arg) =>
          arg'.match_count = arg.match_count + (IF InFirst THEN 1 ELSE 0)
     /\ (op = "analytics" /\ arg.pc = "first" /\ arg' # arg) =>
          arg'.match_count = arg.match_count]_vars

C18_Witness ==
  /\ op = "analytics" /\ arg.pc = "second"
  /\ InFirst
  /\ arg.profile # PlayerById(arg.profile.id)
  /\ arg.ratings # RatingsOf(arg.profile, ratings)
  /\ match_players_to_requirement(arg.all_reqs[arg.req], players, ratings) = << >>

\* ------------------------------------------------------------------------
\* Properties of the social-proof factor
\* ------------------------------------------------------------------------
\* the number of interest records of the player's user, over all requirements
Records(p, ints) ==
  Cardinality({i \in 1..Len(ints) : ints[i].player_id = p.user_id})
Social(p, ints) == SocialScore(p, ints)

\* C19: the social-proof factor of a player is min(1.5 * c, 5) for the
\* number c of the player's interest records over all requirements,
\* whichever requirement is scored; an interest expressed in any
\* requirement raises it until it is 5 from the fourth record on, and a
\* withdrawal takes it back.
C19_SocialProof ==
  /\ [](\A k \in 1..Len(players) :
          LET p == players[k]
              c == Records(p, interests)
          IN /\ FEq(Social(p, interests), Frac(Min(15 * c, 50), 10))
             /\ c >= 4 => FEq(Social(p, interests), Int2F(5))
             /\ \A r \in 1..Len(requirements) :
                  Factors(p, requirements[r], ratings, interests).social
                    = Social(p, interests)
             /\ op = "recommend" =>
                  \A i \in 1..Len(out) :
                    out[i].player = p.id =>
                      out[i].breakdown.social = round(Frac(Min(15 * c, 50), 10)))
  /\ [][\A k \in 1..Len(players) :
          LET p == players[k]
              c == Records(p, interests)
          IN /\ Records(p, interests') = c + 1 =>
                  /\ FLe(Social(p, interests), Social(p, interests'))
                  /\ c < 4 => FLt(Social(p, interests), Social(p, interests'))
             /\ Records(p, interests') = c - 1 =>
                  /\ FLe(Social(p, interests'), Social(p, interests))
                  /\ c <= 4 => FLt(Social(p, interests'), Social(p, interests))
             /\ Records(p, interests') = c =>
                  Social(p, interests') = Social(p, interests)]_vars

C19_Witness ==
  /\ op = "recommend"
  /\ Records(players[1], interests) = MaxLiked
  /\ \E i \in 1..Len(interests) :
       interests[i].requirement_id \notin 1..Len(requirements)
  /\ \E i \in 1..Len(out) : \E j \in 1..Len(out) :
       /\ out[i].breakdown.social = 5
       /\ out[j].breakdown.social = 3

\* C20: the recommender divides by min_experience only when it is > 0, and
\* the experience factor is then min(experience_years / min_experience, 2)
\* * 5; with min_experience = 0 nothing is divided and the factor is 10 for
\* experience_years > 0 and 5 otherwise.
C20_RecNoDivisionByZero ==
  Called("recommend") =>
    /\ \A k \in 1..Len(players) :
         LET e == players[k].experience_years
             me == TheReq.min_experience
             f == ExpScore(players[k], TheReq)
         IN /\ f.den # 0
            /\ me > 0 => FEq(f, Frac(5 * Min(e, 2 * me), me))
            /\ me = 0 => f = Int2F(IF e > 0 THEN 10 ELSE 5)
    /\ \A i \in 1..Len(out) :
         out[i].breakdown.experience =
           round(ExpScore(PlayerById(out[i].player), TheReq))

C20_Witness ==
  /\ Called("recommend")
  /\ TheReq.min_experience = 0
  /\ \E i \in 1..Len(out) : \E j \in 1..Len(out) :
       /\ out[i].breakdown.experience = 5
       /\ PlayerById(out[i].player).experience_years = 0
       /\ out[j].breakdown.experience = 10

\* ------------------------------------------------------------------------
\* Who the matcher leaves out
\* ------------------------------------------------------------------------
\* C24: for a requirement with min_experience = 0 the matcher returns every
\* player of the store; in general a player is left out only if sport and
\* position both differ, experience_years < min_experience, no skill
\* overlaps and avg_rating < 3.5.
C24_MatchOmitsOnlyZero ==
  Called("match") =>
    /\ TheReq.min_experience = 0 =>
         \A k \in 1..Len(players) : Occurrences(players[k].id) = 1
    /\ \A k \in 1..Len(players) :
         Occurrences(players[k].id) = 0 =>
           /\ ~EqIgnoreCase(players[k].sport, TheReq.sport)
           /\ ~EqIgnoreCase(players[k].position, TheReq.position)
           /\ players[k].experience_years < TheReq.min_experience
           /\ skill_set(players[k].skills) \cap skill_set(TheReq.skills_required) = {}
           /\ avg_rating(players[k], ratings) < 35

C24_Witness ==
  /\ Called("match")
  /\ TheReq.min_experience = 0
  /\ Len(out) = Len(players)
  /\ \E i \in 1..Len(out) :
       /\ out[i].score = 1
       /\ PlayerById(out[i].player).experience_years = 0
       /\ ~EqIgnoreCase(PlayerById(out[i].player).sport, TheReq.sport)

\* ------------------------------------------------------------------------
\* Ratings after rate_player requests
\* ------------------------------------------------------------------------
RatingOf(rts, player_id, rater_id) ==
  LET it(r) == r.player_id = player_id /\ r.rater_id = rater_id
  IN SelectSeq(rts, it)

RatingsWellFormed ==
  /\ \A i, j \in 1..Len(ratings) :
       (/\ ratings[i].player_id = ratings[j].player_id
        /\ ratings[i].rater_id = ratings[j].rater_id) => i = j
  /\ \A i \in 1..Len(ratings) : ratings[i].rating \in 1..5
  /\ \A k \in 1..Len(players) :
       LET avg == avg_rating(players[k], ratings)
       IN IF RatingsOf(players[k], ratings) = << >> THEN avg = 0
          ELSE 10 <= avg /\ avg <= 50

\* what one request may do to the ratings: nothing, or set the rating of
\* one (profile, team) pair to a value in 1..5, replacing the pair's row
\* or adding it, all other rows as they were
RatingStep ==
  \/ ratings' = ratings
  \/ \E u \in 1..NumTeams, k \in 1..Len(players), n \in 1..5 :
       LET before == RatingOf(ratings, players[k].id, u)
           after == RatingOf(ratings', players[k].id, u)
           others(r) == ~(r.player_id = players[k].id /\ r.rater_id = u)
       IN /\ Role(u) = "team"
          /\ Len(after) = 1 /\ after[1].rating = n
          /\ Len(before) <= 1
          /\ Len(ratings') = Len(ratings) + 1 - Len(before)
          /\ SelectSeq(ratings', others) = SelectSeq(ratings, others)

\* C23: after any sequence of rate_player requests each (player, rater)
\* pair has at most one rating, every stored rating is an integer in 1..5,
\* every avg_rating is 0 (no ratings) or in [1, 5]; a request sets one
\* team's rating of one profile to a value in 1..5 or changes nothing.
C23_RatingsUniqueInRange == []RatingsWellFormed /\ [][RatingStep]_vars

\* both profiles rated, one of them by two teams, one rating replaced by
\* a lower one
C23_Witness ==
  /\ Len(ratings) = 3
  /\ \E i, j \in 1..Len(ratings) :
       /\ i # j
       /\ ratings[i].player_id = 1 /\ ratings[j].player_id = 1
       /\ ratings[i].rater_id = 1 /\ ratings[i].rating = 1
  /\ avg_rating(players[1], ratings) = 30
  /\ avg_rating(players[2], ratings) = 20

\* ------------------------------------------------------------------------
\* Interest rows under concurrent requests
\* ------------------------------------------------------------------------
InterestsUnique ==
  \A i, j \in 1..Len(interests) :
    (/\ interests[i].player_id = interests[j].player_id
     /\ interests[i].requirement_id = interests[j].requirement_id) => i = j

\* thread w ends a request of the given handler in this step
Ends(w, handler) ==
  inflight[w].handler = handler /\ inflight'[w] = NoRequest

\* what one step may do to the interests: nothing; add the row of an
\* express_interest request of a player with a profile who had no row for
\* the requirement; delete the row of a withdraw_interest request
InterestStep ==
  \/ interests' = interests
  \/ \E w \in Threads :
       /\ Ends(w, "express_interest")
       /\ Role(inflight[w].user) = "player"
       /\ ProfileOf(inflight[w].user, players) # << >>
       /\ ~HasInterest(interests, inflight[w].user, inflight[w].req_id)
       /\ interests' = Append(interests, [player_id |-> inflight[w].user,
                                           requirement_id |-> inflight[w].req_id])
  \/ \E w \in Threads :
       LET other(row) == ~(/\ row.player_id = inflight[w].user
                           /\ row.requirement_id = inflight[w].req_id)
       IN /\ Ends(w, "withdraw_interest")
          /\ interests' = SelectSeq(interests, other)

\* C21: under any interleaving of express_interest and withdraw_interest
\* requests the store never holds two Interest rows of one (player,
\* requirement) pair; an express_interest for a pair that has its row
\* leaves the store unchanged, and a row is only ever added for a user
\* with role 'player' who has a profile.
C21_InterestUnique == []InterestsUnique /\ [][InterestStep]_vars

\* two requests of one player for one requirement both passed the
\* existence check; one has inserted, the other is about to
C21_Witness ==
  \E w \in Threads :
    /\ inflight[w].handler = "express_interest"
    /\ HasInterest(interests, inflight[w].user, inflight[w].req_id)

\* ------------------------------------------------------------------------
\* Profile views under concurrent requests
\* ------------------------------------------------------------------------
ViewsOf(p) ==
  LET mine(v) == v.profile_id = p.id
  IN SelectSeq(views, mine)

Viewers(p) == {ViewsOf(p)[i].viewer_id : i \in 1..Len(ViewsOf(p))}

\* C22: under any interleaving of player_detail requests a profile's
\* profile_views equals the number of its ProfileView rows, which equals
\* the number of distinct users other than the owner who viewed it.
C22_ViewsCountDistinctViewers ==
  \A k \in 1..Len(players) :
    /\ players[k].profile_views = Len(ViewsOf(players[k]))
    /\ Len(ViewsOf(players[k])) = Cardinality(Viewers(players[k]))
    /\ players[k].user_id \notin Viewers(players[k])

====
